---- MODULE Spec2Model ----
(***************************************************************************)
(* Model of src/main.py: a command-line client that sends a local image to *)
(* a remote upscaling model and writes the result next to the source file, *)
(* falling back to the current working directory.                          *)
(*                                                                         *)
(* Strings are sequences of tokens ("/" and "." are the path separator and *)
(* the extension separator, every other token is a run of ordinary         *)
(* characters).  Bytes are integers 0..255.  Base64 text is a sequence of  *)
(* alphabet indices 0..63, with PAD for "=" and JUNK for a character that  *)
(* is not in the alphabet.                                                 *)
(***************************************************************************)
EXTENDS Integers, Sequences, FiniteSets, TLC

\* ---------------------------------------------------------------- bounds
MaxLen == 3

\* ------------------------------------------------------------- constants
PLACEHOLDER == "your-gcp-project-id"
PAD == 64
JUNK == 65

\* -------------------------------------------------------- small helpers
Has(s, x) == \E i \in 1..Len(s) : s[i] = x

Prefix(s, n) == SubSeq(s, 1, n)

Suffix(s, n) == SubSeq(s, n, Len(s))

\* index of the last occurrence of c in s, 0 when there is none (str.rfind + 1)
RFind(s, c) ==
    LET I == {i \in 1..Len(s) : s[i] = c}
    IN  IF I = {} THEN 0 ELSE CHOOSE i \in I : \A j \in I : j <= i

RECURSIVE RStrip(_, _)
RStrip(s, c) ==
    IF Len(s) > 0 /\ s[Len(s)] = c THEN RStrip(Prefix(s, Len(s) - 1), c) ELSE s

SeqsUpTo(S, n) == UNION {[1..k -> S] : k \in 0..n}

\* ------------------------------------------------------------- os.path
\* os.path.split: everything after the last "/" is the tail; the head loses
\* its trailing slashes unless it consists of slashes only.
Split(p) ==
    LET i == RFind(p, "/")
        head == Prefix(p, i)
        tail == Suffix(p, i + 1)
    IN  [head |-> IF head # <<>> /\ RStrip(head, "/") # <<>> THEN RStrip(head, "/") ELSE head,
         tail |-> tail]

\* os.path.splitext on a file name: the extension starts at the last ".",
\* unless only dots precede it.
Splitext(name) ==
    LET dot == RFind(name, ".")
    IN  IF dot > 0 /\ \E k \in 1..(dot - 1) : name[k] # "."
        THEN [root |-> Prefix(name, dot - 1), ext |-> Suffix(name, dot)]
        ELSE [root |-> name, ext |-> <<>>]

\* os.path.join of two components
Join(a, b) ==
    IF Len(b) > 0 /\ b[1] = "/" THEN b
    ELSE IF a = <<>> \/ a[Len(a)] = "/" THEN a \o b
    ELSE a \o <<"/">> \o b

\* os.getcwd()
Getcwd == <<"/", "w">>

\* os.path.abspath, for paths without "." and ".." components: made absolute
\* against the working directory, trailing slashes removed.
Abspath(p) ==
    LET q == IF Len(p) > 0 /\ p[1] = "/" THEN p ELSE Join(Getcwd, p)
        r == RStrip(q, "/")
    IN  IF r = <<>> THEN <<"/">> ELSE r

\* ------------------------------------------------------------- base64
\* base64.b64encode: three bytes become four alphabet indices, a final group
\* of one or two bytes is padded with "=".
RECURSIVE B64Encode(_)
B64Encode(b) ==
    IF Len(b) = 0 THEN <<>>
    ELSE IF Len(b) = 1 THEN
        << b[1] \div 4, (b[1] % 4) * 16, PAD, PAD >>
    ELSE IF Len(b) = 2 THEN
        << b[1] \div 4, (b[1] % 4) * 16 + b[2] \div 16, (b[2] % 16) * 4, PAD >>
    ELSE
        << b[1] \div 4, (b[1] % 4) * 16 + b[2] \div 16,
           (b[2] % 16) * 4 + b[3] \div 64, b[3] % 64 >> \o B64Encode(Suffix(b, 4))

\* base64.b64decode(s) with validate=False, i.e. binascii.a2b_base64 in its
\* non-strict mode: characters outside the alphabet are skipped, a complete
\* run of padding ends the input, and leftover sextets are an error.
\* st = [quad_pos, leftchar, pads, out]; the result is [ok, bytes].
RECURSIVE A2B(_, _, _)
A2B(s, i, st) ==
    IF i > Len(s) THEN [ok |-> st.quad_pos = 0, bytes |-> st.out]
    ELSE LET c == s[i] IN
      IF c = PAD THEN
         IF st.quad_pos >= 2 /\ st.quad_pos + st.pads + 1 >= 4
         THEN [ok |-> TRUE, bytes |-> st.out]
         ELSE A2B(s, i + 1, [st EXCEPT !.pads = IF st.quad_pos >= 2 THEN @ + 1 ELSE @])
      ELSE IF c \notin 0..63 THEN A2B(s, i + 1, st)
      ELSE CASE st.quad_pos = 0 ->
                  A2B(s, i + 1, [quad_pos |-> 1, leftchar |-> c, pads |-> 0, out |-> st.out])
             [] st.quad_pos = 1 ->
                  A2B(s, i + 1, [quad_pos |-> 2, leftchar |-> c % 16, pads |-> 0,
                                 out |-> Append(st.out, (st.leftchar * 4 + c \div 16) % 256)])
             [] st.quad_pos = 2 ->
                  A2B(s, i + 1, [quad_pos |-> 3, leftchar |-> c % 4, pads |-> 0,
                                 out |-> Append(st.out, (st.leftchar * 16 + c \div 4) % 256)])
             [] st.quad_pos = 3 ->
                  A2B(s, i + 1, [quad_pos |-> 0, leftchar |-> 0, pads |-> 0,
                                 out |-> Append(st.out, (st.leftchar * 64 + c) % 256)])

B64Decode(s) == A2B(s, 1, [quad_pos |-> 0, leftchar |-> 0, pads |-> 0, out |-> <<>>])

\* ---------------------------------------------------------------- PIL
\* Image.open(io.BytesIO(b)).size: the decoder accepts a byte string that
\* starts with the format's signature byte and carries the two dimensions
\* after it; anything else raises.
ImageOpen(b) ==
    IF Len(b) >= 3 /\ b[1] = 137
    THEN [ok |-> TRUE, width |-> b[2], height |-> b[3]]
    ELSE [ok |-> FALSE, width |-> 0, height |-> 0]

\* ------------------------------------------------------- the file system
Exists(f, p) == Abspath(p) \in DOMAIN f

\* faulty variant of WriteFile: mode "ab", an existing file is not truncated
WriteFileAppending(f, p, b) ==
    [q \in DOMAIN f \cup {Abspath(p)} |->
        IF q = Abspath(p) THEN (IF q \in DOMAIN f THEN f[q] ELSE <<>>) \o b ELSE f[q]]

\* open(p, "wb") followed by a complete write: the file is created or
\* truncated and holds exactly b
WriteFile(f, p, b) ==
    [q \in DOMAIN f \cup {Abspath(p)} |-> IF q = Abspath(p) THEN b ELSE f[q]]

\* ---------------------------------------------------------- input space
ByteVals == {0, 137, 255}

RemoteBytes == SeqsUpTo(ByteVals, MaxLen)

SourceImages == {<<137, 1, 1>>, <<255>>}

OldFile == <<7, 7>>

Sources ==
    { <<"d", "/", "a", ".", "p">>,
      <<"a", ".", "p">>,
      <<"d", "/", ".", "a">>,
      <<"a", ".", "b", ".", "p">>,
      <<"d", "/">> }

Choices == {"x2", "x4"}

Factors == Choices \cup {"x3"}

Argvs ==
    {[help |-> TRUE, source_image |-> <<>>, upscale_factor |-> ""]}
    \cup {[help |-> FALSE, source_image |-> s, upscale_factor |-> f] : s \in Sources, f \in Factors}

Dirs == {Getcwd, Abspath(<<"d">>)}

\* text the service may send in bytesBase64Encoded: the encoding of some
\* image bytes, the same with a line break in it, or a damaged encoding
Payloads ==
    {B64Encode(b) : b \in RemoteBytes}
    \cup { <<34>>, <<34, 16, PAD>>, <<34, 16, JUNK, 0, 0>> }

Responses ==
    { [predictions |-> <<>>],
      [predictions |-> << [mimeType |-> <<"image/png">>] >>] }
    \cup { [predictions |-> << [bytesBase64Encoded |-> s] >>] : s \in Payloads }
    \cup { [predictions |-> << [bytesBase64Encoded |-> B64Encode(<<137, 0, 255>>)],
                               [bytesBase64Encoded |-> B64Encode(<<137, 255, 0>>)] >>] }

NoResponse == [predictions |-> <<>>]

\* ------------------------------------------------------------- lines 76-83
\* output_filename = f"{filename_base}_upscaled_{factor}{ext}"
OutputFilename(source_path, factor) ==
    LET source_filename == Split(source_path).tail
        se == Splitext(source_filename)
    IN  se.root \o <<"_upscaled_", factor>> \o se.ext

\* target_dir = source_dir if source_dir else os.getcwd()
TargetDir(source_path) ==
    LET source_dir == Split(source_path).head
    IN  IF source_dir # <<>> THEN source_dir ELSE Getcwd

PrimaryPath(source_path, factor) ==
    Join(TargetDir(source_path), OutputFilename(source_path, factor))

FallbackPath(source_path, factor) ==
    Join(Getcwd, OutputFilename(source_path, factor))

\* ------------------------------------------------------------------ state
VARIABLES
    PROJECT_ID,       \* the configuration constant the user has to edit
    argv,             \* the command line
    fs,               \* files: absolute path -> content
    writable,         \* directories os.access(dir, W_OK) accepts
    pc,               \* position in the program
    exit_code,        \* -1 while running
    stdout, stderr,   \* lines printed, by kind
    log,              \* network and file operations performed, in order
    image_bytes, encoded_image,
    predict_calls, predict_result, response,
    upscaled_bytes,
    output_filename, target_dir, output_path,
    primary_result, fallback_result,
    written,          \* absolute paths this run opened for writing
    file_size, width, height

vars == << PROJECT_ID, argv, fs, writable, pc, exit_code, stdout, stderr, log,
           image_bytes, encoded_image, predict_calls, predict_result, response,
           upscaled_bytes, output_filename, target_dir, output_path,
           primary_result, fallback_result, written, file_size, width, height >>

env == << PROJECT_ID, argv, writable >>

locals_read == << image_bytes, encoded_image >>

locals_predict == << predict_calls, predict_result, response >>

locals_write == << output_filename, target_dir, output_path,
                   primary_result, fallback_result, written >>

locals_stat == << file_size, width, height >>

Init ==
    /\ PROJECT_ID \in {PLACEHOLDER, "my-project"}
    /\ argv \in Argvs
    /\ writable \in SUBSET Dirs
    /\ \E src \in {<<>>} \cup SourceImages :
       \E pre \in SUBSET (IF argv.help THEN {}
                          ELSE { Abspath(PrimaryPath(argv.source_image, argv.upscale_factor)),
                                 Abspath(FallbackPath(argv.source_image, argv.upscale_factor)) }) :
          LET here == IF ~argv.help /\ src # <<>> /\ Split(argv.source_image).tail # <<>>
                      THEN {Abspath(argv.source_image)} ELSE {}
          IN  fs = [q \in here \cup pre |-> IF q \in here THEN src ELSE OldFile]
    /\ pc = "main"
    /\ exit_code = -1
    /\ stdout = <<>>
    /\ stderr = <<>>
    /\ log = <<>>
    /\ image_bytes = <<>>
    /\ encoded_image = <<>>
    /\ predict_calls = 0
    /\ predict_result = "none"
    /\ response = NoResponse
    /\ upscaled_bytes = <<>>
    /\ output_filename = <<>>
    /\ target_dir = <<>>
    /\ output_path = <<>>
    /\ primary_result = "none"
    /\ fallback_result = "none"
    /\ written = {}
    /\ file_size = 0
    /\ width = 0
    /\ height = 0

\* sys.exit(code) after printing the lines err to stderr
Exit(code, err) ==
    /\ pc' = "done"
    /\ exit_code' = code
    /\ stderr' = stderr \o err

\* -------------------------------------------------------- lines 139-145
Main ==
    /\ pc = "main"
    /\ IF PROJECT_ID = PLACEHOLDER
       THEN Exit(1, <<"config_error">>)
       ELSE pc' = "parse_args" /\ UNCHANGED <<exit_code, stderr>>
    /\ UNCHANGED <<env, fs, stdout, log, locals_read, locals_predict, upscaled_bytes,
                   locals_write, locals_stat>>

\* -------------------------------------------------------- lines 119-137
\* argparse: -h prints the help text to stdout and exits 0; a factor outside
\* choices prints usage and an error to stderr and exits 2.
\* faulty variant of ParseArgs: no choices on upscale_factor
ParseArgsNoChoices ==
    /\ pc = "parse_args"
    /\ IF argv.help
       THEN /\ stdout' = Append(stdout, "help")
            /\ Exit(0, <<>>)
       ELSE /\ pc' = "init"
            /\ UNCHANGED <<exit_code, stderr, stdout>>
    /\ UNCHANGED <<env, fs, log, locals_read, locals_predict, upscaled_bytes,
                   locals_write, locals_stat>>

ParseArgs ==
    /\ pc = "parse_args"
    /\ IF argv.help
       THEN /\ stdout' = Append(stdout, "help")
            /\ Exit(0, <<>>)
       ELSE IF argv.upscale_factor \notin Choices
       THEN /\ Exit(2, <<"usage", "invalid_choice">>)
            /\ UNCHANGED stdout
       ELSE /\ pc' = "init"
            /\ UNCHANGED <<exit_code, stderr, stdout>>
    /\ UNCHANGED <<env, fs, log, locals_read, locals_predict, upscaled_bytes,
                   locals_write, locals_stat>>

\* ---------------------------------------------------------- lines 23-30
InitClient ==
    /\ pc = "init"
    /\ log' = Append(log, "init")
    /\ \E ok \in BOOLEAN :
         IF ok THEN pc' = "model" /\ UNCHANGED <<exit_code, stderr>>
         ELSE Exit(1, <<"init_error", "details">>)
    /\ UNCHANGED <<env, fs, stdout, locals_read, locals_predict, upscaled_bytes,
                   locals_write, locals_stat>>

\* ---------------------------------------------------------- lines 32-35
\* aiplatform.Model(...) is outside every try block: an exception it raises
\* ends the process with a traceback and status 1.
GetModel ==
    /\ pc = "model"
    /\ log' = Append(log, "model")
    /\ \E ok \in BOOLEAN :
         IF ok THEN pc' = "read" /\ UNCHANGED <<exit_code, stderr>>
         ELSE Exit(1, <<"Traceback">>)
    /\ UNCHANGED <<env, fs, stdout, locals_read, locals_predict, upscaled_bytes,
                   locals_write, locals_stat>>

\* ---------------------------------------------------------- lines 37-47
\* faulty variant of ReadSource: a missing file is read as empty
ReadSourceMissingAsEmpty ==
    /\ pc = "read"
    /\ log' = Append(log, "read")
    /\ image_bytes' = IF Exists(fs, argv.source_image)
                      THEN fs[Abspath(argv.source_image)] ELSE <<>>
    /\ encoded_image' = B64Encode(image_bytes')
    /\ pc' = "predict"
    /\ UNCHANGED <<exit_code, stderr>>
    /\ UNCHANGED <<env, fs, stdout, locals_predict, upscaled_bytes,
                   locals_write, locals_stat>>

ReadSource ==
    /\ pc = "read"
    /\ log' = Append(log, "read")
    /\ IF Exists(fs, argv.source_image)
       THEN \E ok \in BOOLEAN :
              IF ok
              THEN /\ image_bytes' = fs[Abspath(argv.source_image)]
                   /\ encoded_image' = B64Encode(fs[Abspath(argv.source_image)])
                   /\ pc' = "predict"
                   /\ UNCHANGED <<exit_code, stderr>>
              ELSE /\ Exit(1, <<"read_error">>)
                   /\ UNCHANGED locals_read
       ELSE /\ IF Abspath(argv.source_image) \in Dirs
               THEN Exit(1, <<"read_error">>)
               ELSE Exit(1, <<"not_found">>)
            /\ UNCHANGED locals_read
    /\ UNCHANGED <<env, fs, stdout, locals_predict, upscaled_bytes,
                   locals_write, locals_stat>>

\* ---------------------------------------------------------- lines 49-61
\* One synchronous model.predict call: it raises or returns a response.
\* faulty variant of Predict: a call that raises is issued again
PredictRetrying ==
    /\ pc = "predict"
    /\ predict_calls' = predict_calls + 1
    /\ log' = Append(log, "predict")
    /\ \/ /\ predict_result' = "raised"
          /\ stderr' = Append(stderr, "sending")
          /\ UNCHANGED <<pc, exit_code, response>>
       \/ \E r \in Responses :
          /\ predict_result' = "returned"
          /\ response' = r
          /\ pc' = "decode"
          /\ stderr' = Append(stderr, "sending")
          /\ UNCHANGED exit_code
    /\ UNCHANGED <<env, fs, stdout, locals_read, upscaled_bytes, locals_write, locals_stat>>

Predict ==
    /\ pc = "predict"
    /\ predict_calls' = predict_calls + 1
    /\ log' = Append(log, "predict")
    /\ \/ /\ predict_result' = "raised"
          /\ Exit(1, <<"sending", "api_error", "permissions_hint">>)
          /\ UNCHANGED response
       \/ \E r \in Responses :
          /\ predict_result' = "returned"
          /\ response' = r
          /\ pc' = "decode"
          /\ stderr' = Append(stderr, "sending")
          /\ UNCHANGED exit_code
    /\ UNCHANGED <<env, fs, stdout, locals_read, upscaled_bytes, locals_write, locals_stat>>

\* ---------------------------------------------------------- lines 63-74
\* predictions[0] of an empty list raises IndexError and b64decode may raise:
\* both are caught by "except Exception"; the missing field is sys.exit(1).
\* faulty variant of DecodeResponse: a response without an image is taken as
\* an empty image
DecodeResponseLenient(r) ==
    IF Len(r.predictions) = 0 \/ "bytesBase64Encoded" \notin DOMAIN r.predictions[1]
    THEN [outcome |-> "ok", bytes |-> <<>>]
    ELSE LET d == B64Decode(r.predictions[1].bytesBase64Encoded)
         IN  IF d.ok THEN [outcome |-> "ok", bytes |-> d.bytes]
             ELSE [outcome |-> "decode_error", bytes |-> <<>>]

DecodeResponse(r) ==
    IF Len(r.predictions) = 0 THEN [outcome |-> "index_error", bytes |-> <<>>]
    ELSE IF "bytesBase64Encoded" \notin DOMAIN r.predictions[1]
    THEN [outcome |-> "no_image", bytes |-> <<>>]
    ELSE LET d == B64Decode(r.predictions[1].bytesBase64Encoded)
         IN  IF d.ok THEN [outcome |-> "ok", bytes |-> d.bytes]
             ELSE [outcome |-> "decode_error", bytes |-> <<>>]

Decode ==
    /\ pc = "decode"
    /\ LET d == DecodeResponse(response) IN
         CASE d.outcome = "ok" ->
                /\ upscaled_bytes' = d.bytes
                /\ pc' = "write"
                /\ UNCHANGED <<exit_code, stderr>>
           [] d.outcome = "no_image" ->
                /\ Exit(1, <<"no_image">>)
                /\ UNCHANGED upscaled_bytes
           [] OTHER ->
                /\ Exit(1, <<"api_error", "permissions_hint">>)
                /\ UNCHANGED upscaled_bytes
    /\ UNCHANGED <<env, fs, stdout, log, locals_read, locals_predict, locals_write, locals_stat>>

\* ---------------------------------------------------------- lines 76-91
\* The outcome of open(path, "wb") plus write and close: done, refused at
\* open, or failed after the file was created or truncated, leaving only a
\* proper prefix of the data.
WriteOutput ==
    /\ pc = "write"
    /\ output_filename' = OutputFilename(argv.source_image, argv.upscale_factor)
    /\ target_dir' = TargetDir(argv.source_image)
    /\ output_path' = PrimaryPath(argv.source_image, argv.upscale_factor)
    /\ IF Abspath(target_dir') \notin writable
       THEN /\ primary_result' = "denied"
            /\ log' = Append(log, "access")
            /\ UNCHANGED <<fs, written>>
       ELSE \E r \in {"ok", "open_failed", "write_failed"} :
            /\ primary_result' = r
            /\ log' = log \o <<"access", "open_primary">>
            /\ CASE r = "ok" ->
                      /\ fs' = WriteFile(fs, output_path', upscaled_bytes)
                      /\ written' = written \cup {Abspath(output_path')}
                 [] r = "open_failed" ->
                      UNCHANGED <<fs, written>>
                 [] r = "write_failed" ->
                      /\ \E k \in 0..(Len(upscaled_bytes) - 1) :
                           fs' = WriteFile(fs, output_path', Prefix(upscaled_bytes, k))
                      /\ written' = written \cup {Abspath(output_path')}
    /\ pc' = IF primary_result' = "ok" THEN "stat" ELSE "fallback"
    /\ UNCHANGED <<env, exit_code, stdout, stderr, locals_read, locals_predict,
                   upscaled_bytes, fallback_result, locals_stat>>

\* ---------------------------------------------------------- lines 93-103
\* The retry opens the file without asking os.access: it can succeed when the
\* working directory is writable or the file is already there.
\* faulty variant of Fallback: the retry reuses the first output_path
FallbackSamePath ==
    /\ pc = "fallback"
    /\ output_path' = output_path
    /\ log' = Append(log, "open_fallback")
    /\ \E r \in {"ok", "open_failed"} :
         /\ fallback_result' = r
         /\ CASE r = "ok" ->
                   /\ fs' = WriteFile(fs, output_path', upscaled_bytes)
                   /\ written' = written \cup {Abspath(output_path')}
                   /\ pc' = "stat"
                   /\ stderr' = stderr \o <<"warning", "saving_cwd">>
                   /\ UNCHANGED exit_code
              [] r = "open_failed" ->
                   /\ Exit(1, <<"warning", "saving_cwd", "fallback_error">>)
                   /\ UNCHANGED <<fs, written>>
    /\ UNCHANGED <<env, stdout, locals_read, locals_predict, upscaled_bytes,
                   output_filename, target_dir, primary_result, locals_stat>>

Fallback ==
    /\ pc = "fallback"
    /\ output_path' = Join(Getcwd, output_filename)
    /\ log' = Append(log, "open_fallback")
    /\ \E r \in {"ok", "open_failed", "write_failed"} :
         /\ r # "open_failed" => (Getcwd \in writable \/ Exists(fs, output_path'))
         /\ fallback_result' = r
         /\ CASE r = "ok" ->
                   /\ fs' = WriteFile(fs, output_path', upscaled_bytes)
                   /\ written' = written \cup {Abspath(output_path')}
                   /\ pc' = "stat"
                   /\ stderr' = stderr \o <<"warning", "saving_cwd">>
                   /\ UNCHANGED exit_code
              [] r = "open_failed" ->
                   /\ Exit(1, <<"warning", "saving_cwd", "fallback_error">>)
                   /\ UNCHANGED <<fs, written>>
              [] r = "write_failed" ->
                   /\ \E k \in 0..(Len(upscaled_bytes) - 1) :
                        fs' = WriteFile(fs, output_path', Prefix(upscaled_bytes, k))
                   /\ written' = written \cup {Abspath(output_path')}
                   /\ Exit(1, <<"warning", "saving_cwd", "fallback_error">>)
    /\ UNCHANGED <<env, stdout, locals_read, locals_predict, upscaled_bytes,
                   output_filename, target_dir, primary_result, locals_stat>>

\* --------------------------------------------------------- lines 105-116
\* os.path.getsize reads the size from disk; Image.open is outside every try
\* block: bytes that are not an image end the process with a traceback.
ReportLines == <<"Source Image", "Upscaled Image", "New Filesize", "New Dimensions">>

\* faulty variant of StatReport: the dimensions line is not printed
StatReportShort ==
    /\ pc = "stat"
    /\ log' = Append(log, "stat")
    /\ file_size' = Len(fs[Abspath(output_path)])
    /\ LET img == ImageOpen(upscaled_bytes) IN
         IF img.ok
         THEN /\ width' = img.width
              /\ height' = img.height
              /\ stdout' = stdout \o Prefix(ReportLines, 3)
              /\ pc' = "done"
              /\ exit_code' = 0
              /\ UNCHANGED stderr
         ELSE /\ Exit(1, <<"Traceback">>)
              /\ UNCHANGED <<width, height, stdout>>
    /\ UNCHANGED <<env, fs, locals_read, locals_predict, upscaled_bytes, locals_write>>

StatReport ==
    /\ pc = "stat"
    /\ log' = Append(log, "stat")
    /\ file_size' = Len(fs[Abspath(output_path)])
    /\ LET img == ImageOpen(upscaled_bytes) IN
         IF img.ok
         THEN /\ width' = img.width
              /\ height' = img.height
              /\ stdout' = stdout \o ReportLines
              /\ pc' = "done"
              /\ exit_code' = 0
              /\ UNCHANGED stderr
         ELSE /\ Exit(1, <<"Traceback">>)
              /\ UNCHANGED <<width, height, stdout>>
    /\ UNCHANGED <<env, fs, locals_read, locals_predict, upscaled_bytes, locals_write>>

Next ==
    \/ Main
    \/ ParseArgs
    \/ InitClient
    \/ GetModel
    \/ ReadSource
    \/ Predict
    \/ Decode
    \/ WriteOutput
    \/ Fallback
    \/ StatReport

Spec == Init /\ [][Next]_vars

TypeOK ==
    /\ pc \in {"main", "parse_args", "init", "model", "read", "predict", "decode",
               "write", "fallback", "stat", "done"}
    /\ exit_code \in {-1, 0, 1, 2}
    /\ (pc = "done") <=> (exit_code # -1)

\* =================================================================
\* Properties
\* =================================================================
Done == pc = "done"

Positional == ~argv.help

OutputName == OutputFilename(argv.source_image, argv.upscale_factor)

CwdOutput == Abspath(Join(Getcwd, OutputName))

SourceOutput == Abspath(PrimaryPath(argv.source_image, argv.upscale_factor))

\* the bytes the service sent: the base64 decoding of the payload field
Decoded == B64Decode(response.predictions[1].bytesBase64Encoded).bytes

PrimaryFailed == primary_result \in {"denied", "open_failed", "write_failed"}

NoImage ==
    /\ predict_result = "returned"
    /\ \/ Len(response.predictions) = 0
       \/ "bytesBase64Encoded" \notin DOMAIN response.predictions[1]

WriteAttempted ==
    Has(log, "access") \/ Has(log, "open_primary") \/ Has(log, "open_fallback")

SourceMissing ==
    /\ Positional
    /\ ~Exists(fs, argv.source_image)
    /\ Abspath(argv.source_image) \notin Dirs

FatalError ==
    \E e \in {"config_error", "not_found", "api_error", "no_image", "fallback_error"} :
        Has(stderr, e)

Reported ==
    /\ stdout = ReportLines
    /\ Abspath(output_path) \in written
    /\ Exists(fs, output_path)
    /\ fs[Abspath(output_path)] = upscaled_bytes

StepOrder ==
    << "init", "model", "read", "predict", "access", "open_primary", "open_fallback", "stat" >>

\* i < j whenever step a is logged at i and step b at j
Before(a, b) ==
    \A i, j \in 1..Len(log) : (log[i] = a /\ log[j] = b) => i < j

\* C1: a run that ends with status 0 has created or written exactly one
\* file, named {base}_upscaled_{factor}{ext}, holding exactly the decoded
\* payload, whether it was written next to the source or in the working
\* directory after a failed first attempt.
C1_ExactlyOneOutput ==
    (Done /\ exit_code = 0 /\ Positional) =>
        /\ Cardinality(written) = 1
        /\ \A p \in written :
             /\ Split(p).tail = OutputName
             /\ fs[p] = Decoded

\* C2 as claimed: whenever the first write attempt fails, the run warns,
\* leaves the decoded bytes at {cwd}/{name} and ends with status 0.
C2_FallbackAlwaysSucceeds ==
    (Done /\ PrimaryFailed) =>
        /\ Has(stderr, "warning")
        /\ CwdOutput \in DOMAIN fs
        /\ fs[CwdOutput] = Decoded
        /\ exit_code = 0

\* C2 amended: whenever the first write attempt fails, the run warns and
\* retries at {cwd}/{name}; a retry that succeeds leaves exactly the decoded
\* bytes there, and the run then ends with status 0 if those bytes are an
\* image and with status 1 otherwise; a retry that fails ends with status 1.
C2_FallbackWrite ==
    (PrimaryFailed /\ pc \in {"stat", "done"}) =>
        /\ Has(stderr, "warning")
        /\ Abspath(output_path) = CwdOutput
        /\ fallback_result = "ok" =>
             /\ CwdOutput \in written
             /\ fs[CwdOutput] = Decoded
        /\ Done =>
             /\ exit_code = 0 <=> (fallback_result = "ok" /\ ImageOpen(Decoded).ok)
             /\ exit_code # 0 => exit_code = 1

C2_Witness ==
    /\ Done
    /\ primary_result = "denied"
    /\ fallback_result = "ok"
    /\ SourceOutput # CwdOutput
    /\ exit_code = 0

\* C3: a response with no predictions, or whose first prediction lacks
\* bytesBase64Encoded, ends the run with a non-zero status and no write was
\* attempted anywhere.
C3_NoImageNoWrite ==
    NoImage =>
        /\ pc \in {"decode", "done"}
        /\ Done => exit_code \notin {-1, 0}
        /\ ~WriteAttempted
        /\ written = {}

C3_Witness ==
    /\ Done
    /\ NoImage
    /\ Len(response.predictions) > 0
    /\ Has(stderr, "no_image")

\* C4 as claimed: a run on a source path that does not exist ends with a
\* non-zero status, the "not found" message and no output file.
C4_NotFoundAlways ==
    (Done /\ SourceMissing) =>
        /\ exit_code \notin {-1, 0}
        /\ Has(stderr, "not_found")
        /\ written = {}

\* C4 amended: a run on a source path that does not exist ends with a
\* non-zero status, no predict call and no output file; the "not found"
\* message is printed exactly when the run reaches the read step.
C4_NotFound ==
    SourceMissing =>
        /\ predict_calls = 0
        /\ written = {}
        /\ ~WriteAttempted
        /\ Done =>
             /\ exit_code \notin {-1, 0}
             /\ Has(stderr, "not_found") <=> Has(log, "read")

C4_Witness ==
    /\ Done
    /\ SourceMissing
    /\ Has(stderr, "not_found")
    /\ exit_code = 1

\* C5: a factor outside {x2, x4} is rejected with a non-zero status before
\* any network step (init, model, predict) and any file step (read, write).
C5_InvalidFactorRejected ==
    (Positional /\ argv.upscale_factor \notin Choices) =>
        /\ log = <<>>
        /\ predict_calls = 0
        /\ written = {}
        /\ pc \in {"main", "parse_args", "done"}
        /\ Done => exit_code \in {1, 2}

C5_Witness ==
    /\ Done
    /\ Positional
    /\ argv.upscale_factor \notin Choices
    /\ Has(stderr, "invalid_choice")
    /\ exit_code = 2

\* C6 as claimed: in every terminal state, status 0 goes with exactly the
\* four report lines printed after the output was written, and every fatal
\* error goes with status 1 and an empty stdout.
C6_ExitZeroIffReport ==
    Done =>
        /\ exit_code = 0 <=> Reported
        /\ FatalError => (exit_code = 1 /\ stdout = <<>>)

\* C6 amended: the same, in every terminal state of a run that was given a
\* source path and a factor (a run asked for help prints the help text to
\* stdout and ends with status 0).
C6_ExitStatus ==
    (Done /\ Positional) =>
        /\ exit_code = 0 <=> Reported
        /\ FatalError => (exit_code = 1 /\ stdout = <<>>)
        /\ exit_code # 0 => stdout = <<>>

C6_Witness ==
    /\ Done
    /\ Positional
    /\ exit_code = 0
    /\ Reported
    /\ fallback_result = "ok"

\* C7: on a successful run the reported size is the length of the file at
\* the final output path, which is the length of the decoded bytes, and the
\* reported dimensions are those decoded from the same bytes in memory, also
\* when a file was already at the output path.
C7_ReportedStats ==
    (Done /\ exit_code = 0 /\ Positional) =>
        /\ file_size = Len(fs[Abspath(output_path)])
        /\ file_size = Len(Decoded)
        /\ ImageOpen(Decoded).ok
        /\ width = ImageOpen(Decoded).width
        /\ height = ImageOpen(Decoded).height

C7_Witness ==
    /\ Done
    /\ exit_code = 0
    /\ primary_result = "write_failed"
    /\ SourceOutput = CwdOutput
    /\ file_size = 3

\* C8: predict is called at most once and only after the source was read
\* and encoded; a call that raises ends the run with the diagnostic and the
\* permissions hint, a non-zero status, no second call and no file written.
C8_PredictOnce ==
    /\ predict_calls <= 1
    /\ predict_calls >= 1 =>
         /\ Prefix(log, 4) = << "init", "model", "read", "predict" >>
         /\ image_bytes = fs[Abspath(argv.source_image)]
         /\ encoded_image = B64Encode(image_bytes)
         /\ B64Decode(encoded_image) = [ok |-> TRUE, bytes |-> image_bytes]
    /\ predict_result = "raised" =>
         /\ Done
         /\ exit_code \notin {-1, 0}
         /\ Has(stderr, "api_error")
         /\ Has(stderr, "permissions_hint")
         /\ written = {}
         /\ ~WriteAttempted

C8_Witness ==
    /\ Done
    /\ predict_result = "raised"
    /\ predict_calls = 1

\* C9: a run that ends with a non-zero status has left no output file,
\* complete or truncated, next to the source or in the working directory.
C9_NoPartialResult ==
    (Done /\ exit_code # 0) => written = {}

\* C10: the steps run in the fixed order, and a step that fails ends the run
\* with status 1 and a diagnostic printed by the program's own handler.
C10_HandledDiagnostics ==
    /\ \A i, j \in 1..Len(StepOrder) : i < j => Before(StepOrder[i], StepOrder[j])
    /\ (Done /\ log # <<>> /\ exit_code # 0) =>
         /\ exit_code = 1
         /\ ~Has(stderr, "Traceback")
         /\ \E e \in {"init_error", "not_found", "read_error", "api_error",
                      "no_image", "fallback_error"} : Has(stderr, e)

====
